---- MODULE Spec2Model ----
(***************************************************************************)
(* Food-Vision: the fine-tuning control logic.                             *)
(*                                                                         *)
(*   - FoodVisionModel (src/src/models.py): the freeze / unfreeze policy   *)
(*     over the backbone blocks and the discriminative-LR parameter groups.*)
(*   - train (src/src/train.py): the epoch loop with best-model            *)
(*     checkpointing and early stopping.                                   *)
(*                                                                         *)
(*   - save_checkpoint / load_checkpoint (src/src/utils.py).               *)
(*   - the inference service (src/backend/app.py).                         *)
(*                                                                         *)
(* The specifications share the variables:                                 *)
(*   SpecModel      a FoodVisionModel object driven by arbitrary method    *)
(*                  calls;                                                 *)
(*   Spec           one run of train(); FairSpec adds the progress of the  *)
(*                  single-threaded run;                                   *)
(*   SpecRoundTrip  a run of train() followed by save_checkpoint /         *)
(*                  load_checkpoint on its checkpoint file;                *)
(*   SpecPass       one pass of train_one_epoch / evaluate over a loader,  *)
(*                  with the per-batch values the aggregates are made of;  *)
(*   SpecService    the inference service from startup on.                 *)
(***************************************************************************)
EXTENDS Integers, Sequences, FiniteSets, TLC

\* ---------------------------------------------------------------- bounds
MaxBlocks == 6          \* backbone block counts explored: 1..MaxBlocks
ParamsPerBlock == 2     \* parameters owned by each backbone block
MaxEpochs == 5          \* config.training.epochs ranges over 0..MaxEpochs
MaxPatience == 3        \* config.training.patience ranges over 0..MaxPatience
TrainBatches == 2       \* len(train_loader)
TestBatches == 2        \* len(test_loader)
MaxPassBatches == 3     \* loader lengths explored by the pass on its own: 0..MaxPassBatches
MaxBatchSize == 2       \* labels.size(0) ranges over 1..MaxBatchSize
MaxRequests == 3        \* /predict requests a service run receives

\* ------------------------------------------------------ program constants
HeadParams == 2             \* nn.Linear of the head: weight and bias
EfficientNetBlocks == 8     \* "EfficientNetB2 has 8 blocks (0-7)"
LastBlockCount == 2         \* last_block_start = total_blocks - 2
InitialBestAcc == 0         \* best_test_acc = 0.0
StatusServerError == 500    \* HTTPException(status_code=500, ...)
StatusBadRequest == 400     \* HTTPException(status_code=400, ...)
StatusOk == 200             \* a handler that returns its result

VARIABLES
    \* FoodVisionModel
    total_blocks,       \* len(self.backbone.features)
    requires_grad,      \* param.requires_grad, per parameter
    frozen,             \* self._frozen
    call,               \* the last method call on the model and its outcome
    prev_call,          \* the call before it
    param_groups,       \* the last result of get_parameter_groups
    \* train()
    config,             \* the loaded configuration
    pc,                 \* position of the run
    epoch,              \* loop variable (0: not bound yet)
    cur,                \* train_loss, train_acc, test_loss, test_acc of the epoch
    history,            \* history dict of four lists
    best_test_acc,
    best_epoch,
    epochs_without_improvement,
    checkpoint,         \* best_model.pth on disk
    saved_epochs,       \* epochs at which torch.save returned
    stop_epoch,         \* epoch at which the early-stopping break ran (0: none)
    error,              \* exception that ended the run ("none": none)
    phases,             \* what the current epoch has done so far, in order
    optimizer_steps,    \* optimizer.step() calls: versions of weights and optimizer state
    scheduler_steps,    \* scheduler.step() calls
    seed_calls,         \* set_seed invocations
    loaders_created,    \* create_dataloaders has returned
    history_file,       \* training_history.json
    metrics,            \* metrics.json, also returned to the caller
    \* one pass of train_one_epoch / evaluate over a loader
    pass_batches,       \* the batches the pass has consumed: loss, size, correct
    running_loss,
    correct,
    total_seen,         \* total: labels seen by the pass
    pass_result,        \* (epoch_loss, epoch_acc) returned by the pass
    \* utils.load_checkpoint
    loaded,             \* (epoch, metrics) returned by load_checkpoint
    \* backend/app.py
    model,              \* the global model of the service
    model_file,         \* models/best_model.pth as the service finds it
    response,           \* the last HTTP response
    inference_model,    \* the model the last predict() call was given
    requests,           \* /predict requests received
    pending             \* /predict requests suspended at "await file.read()"

model_vars == <<total_blocks, requires_grad, frozen, call, prev_call, param_groups>>
loop_vars == <<epoch, cur, history, best_test_acc, best_epoch,
               epochs_without_improvement, checkpoint, saved_epochs, stop_epoch>>
run_vars == <<config, pc, error>>
pass_vars == <<phases, optimizer_steps, scheduler_steps>>
io_vars == <<seed_calls, loaders_created, history_file, metrics>>
epoch_pass_vars == <<pass_batches, running_loss, correct, total_seen, pass_result>>
service_vars == <<model, model_file, response, inference_model, requests, pending>>
ext_vars == <<epoch_pass_vars, loaded, service_vars>>
vars == <<model_vars, loop_vars, run_vars, pass_vars, io_vars, ext_vars>>

\* ======================================================================
\* FoodVisionModel
\* ======================================================================

\* Parameters are named by (module, block index, position in the block).
BlockParams(i) == [j \in 1..ParamsPerBlock |-> <<"features", i, j>>]

ClassifierParams == [j \in 1..HeadParams |-> <<"classifier", 1, j>>]

SeqRange(s) == {s[k] : k \in 1..Len(s)}

Parameters(T) ==
    UNION {SeqRange(BlockParams(i)) : i \in 0..(T - 1)} \cup SeqRange(ClassifierParams)

\* A freshly built network: every parameter requires grad.
FreshParameters(T) == [p \in Parameters(T) |-> TRUE]

\* nn.Sequential indexing: -len <= idx < len, negative indices count from the end.
IndexInRange(i, T) == i >= -T /\ i < T

BlockIndex(i, T) == IF i < 0 THEN i + T ELSE i

SetBlock(rg, b, flag) ==
    [p \in DOMAIN rg |-> IF p[1] = "features" /\ p[2] = b THEN flag ELSE rg[p]]

FreezeEverythingFlags(rg) == [p \in DOMAIN rg |-> FALSE]

\* for param in self.backbone.features.parameters(): param.requires_grad = False
FreezeBackboneFlags(rg) ==
    [p \in DOMAIN rg |-> IF p[1] = "features" THEN FALSE ELSE rg[p]]

UnfreezeAfterStemFlags(rg) ==
    [p \in DOMAIN rg |-> IF p[1] = "features" /\ p[2] >= 1 THEN TRUE ELSE rg[p]]

\* for param in self.backbone.features.parameters(): param.requires_grad = True
UnfreezeBackboneFlags(rg) ==
    [p \in DOMAIN rg |-> IF p[1] = "features" THEN TRUE ELSE rg[p]]

\* for i in range(first, total_blocks): features[i] parameters requires_grad = True
RECURSIVE UnfreezeFrom(_, _, _)
UnfreezeFrom(i, T, rg) ==
    IF i >= T THEN [rg |-> rg, raised |-> FALSE]
    ELSE IF ~IndexInRange(i, T) THEN [rg |-> rg, raised |-> TRUE]
    ELSE UnfreezeFrom(i + 1, T, SetBlock(rg, BlockIndex(i, T), TRUE))

UnfreezeStartNoOffset(T, n) == T - n + 1

UnfreezeStart(T, n) == T - n

UnfreezeLastBlocksKeep(T, rg, n) == UnfreezeFrom(UnfreezeStart(T, n), T, rg)

\* unfreeze_last_blocks: freeze everything, then unfreeze the last n blocks
UnfreezeLastBlocksFlags(T, rg, n) ==
    UnfreezeFrom(UnfreezeStart(T, n), T, FreezeBackboneFlags(rg))

RECURSIVE CollectAll(_, _, _, _)
CollectAll(lo, hi, T, rg) ==
    IF lo >= hi THEN <<>>
    ELSE BlockParams(BlockIndex(lo, T)) \o CollectAll(lo + 1, hi, T, rg)

\* the trainable parameters of blocks features[lo], ..., features[hi-1], in order
RECURSIVE CollectTrainable(_, _, _, _)
CollectTrainable(lo, hi, T, rg) ==
    IF lo >= hi THEN <<>>
    ELSE SelectSeq(BlockParams(BlockIndex(lo, T)), LAMBDA p : rg[p])
            \o CollectTrainable(lo + 1, hi, T, rg)

Group(params, lr, name) == [params |-> params, lr |-> lr, name |-> name]

\* if mid_params: param_groups.append({...})
OptionalGroup(params, lr, name) ==
    IF params # <<>> THEN <<Group(params, lr, name)>> ELSE <<>>

LastBlockStartOne(T) == T - 1

LastBlockStart(T) == T - LastBlockCount

\* get_parameter_groups(lr_classifier, lr_last_blocks, lr_mid_layers); the three
\* rates are kept symbolic
GetParameterGroups(T, rg) ==
    OptionalGroup(CollectTrainable(0, LastBlockStart(T), T, rg),
                  "lr_mid_layers", "mid_layers")
    \o OptionalGroup(CollectTrainable(LastBlockStart(T), T, T, rg),
                     "lr_last_blocks", "last_blocks")
    \o OptionalGroup(SelectSeq(ClassifierParams, LAMBDA p : rg[p]),
                     "lr_classifier", "classifier")

NoCall == [op |-> "none", n |-> 0, raised |-> FALSE]

Called(op, n, raised) == [op |-> op, n |-> n, raised |-> raised]

\* FoodVisionModel.__init__(freeze_backbone=fb) on a backbone of T blocks
ModelInit(T, fb) ==
    /\ total_blocks = T
    /\ requires_grad = IF fb THEN FreezeBackboneFlags(FreshParameters(T))
                       ELSE FreshParameters(T)
    /\ frozen = fb
    /\ call = Called("__init__", 0, FALSE)
    /\ prev_call = NoCall
    /\ param_groups = <<>>

freeze_backbone ==
    /\ requires_grad' = FreezeBackboneFlags(requires_grad)
    /\ frozen' = TRUE
    /\ call' = Called("freeze_backbone", 0, FALSE)
    /\ prev_call' = call
    /\ UNCHANGED <<total_blocks, param_groups>>

unfreeze_backbone ==
    /\ requires_grad' = UnfreezeBackboneFlags(requires_grad)
    /\ frozen' = FALSE
    /\ call' = Called("unfreeze_backbone", 0, FALSE)
    /\ prev_call' = call
    /\ UNCHANGED <<total_blocks, param_groups>>

unfreeze_last_blocks(n) ==
    LET r == UnfreezeLastBlocksFlags(total_blocks, requires_grad, n) IN
    /\ requires_grad' = r.rg
    /\ frozen' = TRUE
    /\ call' = Called("unfreeze_last_blocks", n, r.raised)
    /\ prev_call' = call
    /\ UNCHANGED <<total_blocks, param_groups>>

get_parameter_groups ==
    /\ param_groups' = GetParameterGroups(total_blocks, requires_grad)
    /\ call' = Called("get_parameter_groups", 0, FALSE)
    /\ prev_call' = call
    /\ UNCHANGED <<total_blocks, requires_grad, frozen>>

\* values of num_blocks tried on a model of T blocks
BlockCounts(T) == 0..(2 * T + 1)

\* ======================================================================
\* train()
\* ======================================================================

NoCheckpoint == [status |-> "absent", epoch |-> 0, test_acc |-> 0]

NoEpochValues == [train_loss |-> 0, train_acc |-> 0, test_loss |-> 0, test_acc |-> 0]

EmptyHistory == [train_loss |-> <<>>, train_acc |-> <<>>, test_loss |-> <<>>, test_acc |-> <<>>]

LoopInit ==
    /\ epoch = 0
    /\ cur = NoEpochValues
    /\ history = EmptyHistory
    /\ best_test_acc = InitialBestAcc
    /\ best_epoch = 0
    /\ epochs_without_improvement = 0
    /\ checkpoint = NoCheckpoint
    /\ saved_epochs = {}
    /\ stop_epoch = 0

NoHistoryFile == [written |-> FALSE, data |-> EmptyHistory]

NoMetrics == [written |-> FALSE, best_test_acc |-> 0, best_epoch |-> 0, total_epochs |-> 0,
              final_train_acc |-> 0, final_test_acc |-> 0]

\* nothing has run yet
RunInit ==
    /\ phases = <<>>
    /\ optimizer_steps = 0
    /\ scheduler_steps = 0
    /\ seed_calls = 0
    /\ loaders_created = FALSE
    /\ history_file = NoHistoryFile
    /\ metrics = NoMetrics

NoPassResult == [returned |-> FALSE, epoch_loss |-> <<0, 1>>, epoch_acc |-> <<0, 1>>]

\* no pass is under way
PassInit ==
    /\ pass_batches = <<>>
    /\ running_loss = 0
    /\ correct = 0
    /\ total_seen = 0
    /\ pass_result = NoPassResult

NotLoaded == [returned |-> FALSE, epoch |-> 0, metrics |-> {}]

NoResponse == [endpoint |-> "none", status |-> 0, model_loaded |-> FALSE]

\* model = None (0; k >= 1 is the object of the k-th successful load_model);
\* the application has not started and predict() has not run (-1)
ServiceInit ==
    /\ model = 0
    /\ response = NoResponse
    /\ inference_model = -1
    /\ requests = 0
    /\ pending = 0

\* what the run of train() and the model object do not use
ExtInit ==
    /\ PassInit
    /\ loaded = NotLoaded
    /\ ServiceInit
    /\ model_file = "missing"

\* block counts of the models explored: 1..MaxBlocks and the EfficientNetB2 count
ModelBlockCounts == (1..MaxBlocks) \cup {EfficientNetBlocks}

\* ---------------------------------------------------- SpecModel
InitModel ==
    /\ \E T \in ModelBlockCounts, fb \in BOOLEAN : ModelInit(T, fb)
    /\ LoopInit
    /\ RunInit
    /\ ExtInit
    /\ config = [epochs |-> 0, patience |-> 0, early_stopping |-> FALSE,
                 freeze_backbone |-> frozen, unfreeze_last_blocks |-> 0,
                 discriminative_lr |-> FALSE, scheduler |-> "none",
                 data_dirs_exist |-> TRUE]
    /\ pc = "model"
    /\ error = "none"

NextModel ==
    /\ pc = "model"
    /\ ~call.raised
    /\ UNCHANGED <<loop_vars, run_vars, pass_vars, io_vars, ext_vars>>
    /\ \/ freeze_backbone
       \/ unfreeze_backbone
       \/ \E n \in BlockCounts(total_blocks) : unfreeze_last_blocks(n)
       \/ get_parameter_groups

SpecModel == InitModel /\ [][NextModel]_vars

\* the per-epoch results of the two passes are outputs of the network and the
\* data: any of these values may come back
TestAccValues == {0, 70, 71, 72, 80}

TrainAccValues == {75}

LossValues == {1}

\* model / optimizer sections of the configurations explored by a run: the
\* frozen baseline, full fine-tuning, the partly unfrozen model with
\* discriminative rates, and two block counts beyond the backbone
ModelConfigs ==
    {[freeze_backbone |-> TRUE,  unfreeze_last_blocks |-> 0, discriminative_lr |-> FALSE,
      scheduler |-> "none"],
     [freeze_backbone |-> FALSE, unfreeze_last_blocks |-> 0, discriminative_lr |-> FALSE,
      scheduler |-> "cosine_annealing"],
     [freeze_backbone |-> TRUE,  unfreeze_last_blocks |-> 2, discriminative_lr |-> TRUE,
      scheduler |-> "cosine_annealing"],
     [freeze_backbone |-> TRUE,  unfreeze_last_blocks |-> EfficientNetBlocks + 1,
      discriminative_lr |-> FALSE, scheduler |-> "none"],
     [freeze_backbone |-> TRUE,  unfreeze_last_blocks |-> 2 * EfficientNetBlocks + 1,
      discriminative_lr |-> FALSE, scheduler |-> "none"]}

\* patience is read only when early stopping is on (short-circuit "and"):
\* one value stands for all of them when it is off
PatienceValues(es) == IF es THEN 0..MaxPatience ELSE {MaxPatience}

ConfigsFor(es) ==
    {[epochs |-> e, patience |-> p, early_stopping |-> es,
      freeze_backbone |-> m.freeze_backbone,
      unfreeze_last_blocks |-> m.unfreeze_last_blocks,
      discriminative_lr |-> m.discriminative_lr,
      scheduler |-> m.scheduler,
      data_dirs_exist |-> d] :
        e \in 0..MaxEpochs, p \in PatienceValues(es),
        m \in ModelConfigs, d \in BOOLEAN}

\* config.training.epochs: the epoch loop reads nothing of the model section,
\* so the configurations that unfreeze blocks are run for one epoch at most
EpochsFor(c) == IF c.unfreeze_last_blocks = 0 THEN 0..MaxEpochs ELSE 0..1

Configs == {c \in ConfigsFor(TRUE) \cup ConfigsFor(FALSE) : c.epochs \in EpochsFor(c)}

Raise(kind) ==
    /\ pc' = "error"
    /\ error' = kind

Goto(label) ==
    /\ pc' = label
    /\ error' = error

\* variant that goes on to the data loaders without seeding
load_config_then_loaders ==
    /\ pc = "load_config"
    /\ Goto("create_dataloaders")
    /\ UNCHANGED <<model_vars, loop_vars, pass_vars, io_vars, config>>
    /\ UNCHANGED ext_vars

\* config = load_config(config_path); output directory; config.save
load_config ==
    /\ pc = "load_config"
    /\ Goto("set_seed")
    /\ UNCHANGED <<model_vars, loop_vars, pass_vars, io_vars, config>>
    /\ UNCHANGED ext_vars

\* set_seed(config.reproducibility.seed, config.reproducibility.deterministic)
set_seed ==
    /\ pc = "set_seed"
    /\ seed_calls' = seed_calls + 1
    /\ Goto("create_dataloaders")
    /\ UNCHANGED <<model_vars, loop_vars, pass_vars, config,
                   loaders_created, history_file, metrics>>
    /\ UNCHANGED ext_vars

\* variant without the directory test
create_dataloaders_unchecked ==
    /\ pc = "create_dataloaders"
    /\ loaders_created' = TRUE
    /\ Goto("create_model")
    /\ UNCHANGED <<model_vars, loop_vars, pass_vars, config,
                   seed_calls, history_file, metrics>>
    /\ UNCHANGED ext_vars

\* create_dataloaders raises FileNotFoundError when train/ or test/ is missing
create_dataloaders ==
    /\ pc = "create_dataloaders"
    /\ IF config.data_dirs_exist
       THEN /\ loaders_created' = TRUE
            /\ Goto("create_model")
       ELSE /\ loaders_created' = loaders_created
            /\ Raise("FileNotFoundError")
    /\ UNCHANGED <<model_vars, loop_vars, pass_vars, config,
                   seed_calls, history_file, metrics>>
    /\ UNCHANGED ext_vars

\* model = create_model(freeze_backbone=config.model.freeze_backbone, ...)
create_model ==
    /\ pc = "create_model"
    /\ requires_grad' = IF config.freeze_backbone
                        THEN FreezeBackboneFlags(FreshParameters(total_blocks))
                        ELSE FreshParameters(total_blocks)
    /\ frozen' = config.freeze_backbone
    /\ call' = Called("__init__", 0, FALSE)
    /\ prev_call' = NoCall
    /\ Goto("unfreeze_last_blocks")
    /\ UNCHANGED <<total_blocks, param_groups, loop_vars, pass_vars, io_vars, config>>
    /\ UNCHANGED ext_vars

\* if config.model.unfreeze_last_blocks > 0: model.unfreeze_last_blocks(...)
unfreeze_configured_blocks ==
    /\ pc = "unfreeze_last_blocks"
    /\ IF config.unfreeze_last_blocks > 0
       THEN /\ unfreeze_last_blocks(config.unfreeze_last_blocks)
            /\ IF call'.raised THEN Raise("IndexError") ELSE Goto("create_optimizer")
       ELSE /\ Goto("create_optimizer")
            /\ UNCHANGED model_vars
    /\ UNCHANGED <<loop_vars, pass_vars, io_vars, config>>
    /\ UNCHANGED ext_vars

LoopHasNextOneMore(e, total) == e < total + 1

\* range(1, epochs + 1) has a value after e
LoopHasNext(e, total) == e < total

\* for epoch in range(1, config.training.epochs + 1): first iteration or none
EnterLoop ==
    IF LoopHasNext(0, config.epochs)
    THEN /\ epoch' = 1
         /\ Goto("train_one_epoch")
    ELSE /\ epoch' = epoch
         /\ Goto("complete")

\* optimizer (with get_parameter_groups under discriminative_lr), scheduler,
\* criterion, history and the controller's initial values; then the loop starts
create_optimizer ==
    /\ pc = "create_optimizer"
    /\ IF config.discriminative_lr
       THEN get_parameter_groups
       ELSE UNCHANGED model_vars
    /\ history' = EmptyHistory
    /\ best_test_acc' = InitialBestAcc
    /\ best_epoch' = 0
    /\ epochs_without_improvement' = 0
    /\ EnterLoop
    /\ UNCHANGED <<cur, checkpoint, saved_epochs, stop_epoch, config, pass_vars, io_vars>>
    /\ UNCHANGED ext_vars

\* number of batches of a pass ("train" / "validate") the epoch has processed
BatchesDone(pass) == Cardinality({k \in 1..Len(phases) : phases[k][1] = pass})

HasNextBatchButLast(done, total) == done < total - 1

\* the loader still has a batch for the pass
HasNextBatch(done, total) == done < total

BatchStepsAlways(training, steps) == steps + 1

\* optimizer.zero_grad / loss.backward / optimizer.step are in train_one_epoch
\* only; evaluate runs the forward pass under torch.no_grad()
BatchSteps(training, steps) == IF training THEN steps + 1 ELSE steps

\* variant that records the exception of a batch and stays in the loop
BatchFailureSkipped(kind) ==
    /\ pc' = pc
    /\ error' = kind

\* an exception raised inside the batch loop: neither pass nor the epoch
\* loop has a try / except, so it leaves train()
BatchFailure(kind) == Raise(kind)

\* the loader, the forward pass, the loss, backward or optimizer.step raises
train_batch_raises ==
    /\ pc = "train_one_epoch"
    /\ HasNextBatch(BatchesDone("train"), TrainBatches)
    /\ BatchFailure("BatchError")
    /\ UNCHANGED <<model_vars, loop_vars, config, pass_vars, io_vars>>
    /\ UNCHANGED ext_vars

\* the loader, the forward pass or the loss raises during evaluate
eval_batch_raises ==
    /\ pc = "evaluate"
    /\ HasNextBatch(BatchesDone("validate"), TestBatches)
    /\ BatchFailure("BatchError")
    /\ UNCHANGED <<model_vars, loop_vars, config, pass_vars, io_vars>>
    /\ UNCHANGED ext_vars

\* one iteration of the batch loop of train_one_epoch
train_batch ==
    /\ pc = "train_one_epoch"
    /\ HasNextBatch(BatchesDone("train"), TrainBatches)
    /\ phases' = Append(phases, <<"train", BatchesDone("train") + 1>>)
    /\ optimizer_steps' = BatchSteps(TRUE, optimizer_steps)
    /\ Goto("train_one_epoch")
    /\ UNCHANGED <<model_vars, loop_vars, config, scheduler_steps, io_vars>>
    /\ UNCHANGED ext_vars

\* train_loss, train_acc = train_one_epoch(...): the batch loop is over
train_one_epoch ==
    /\ pc = "train_one_epoch"
    /\ ~HasNextBatch(BatchesDone("train"), TrainBatches)
    /\ \E l \in LossValues, a \in TrainAccValues :
           cur' = [cur EXCEPT !.train_loss = l, !.train_acc = a]
    /\ Goto("evaluate")
    /\ UNCHANGED <<model_vars, config, epoch, history, best_test_acc, best_epoch,
                   epochs_without_improvement, checkpoint, saved_epochs, stop_epoch,
                   pass_vars, io_vars>>
    /\ UNCHANGED ext_vars

\* one iteration of the batch loop of evaluate
eval_batch ==
    /\ pc = "evaluate"
    /\ HasNextBatch(BatchesDone("validate"), TestBatches)
    /\ phases' = Append(phases, <<"validate", BatchesDone("validate") + 1>>)
    /\ optimizer_steps' = BatchSteps(FALSE, optimizer_steps)
    /\ Goto("evaluate")
    /\ UNCHANGED <<model_vars, loop_vars, config, scheduler_steps, io_vars>>
    /\ UNCHANGED ext_vars

\* test_loss, test_acc = evaluate(...): the batch loop is over
evaluate ==
    /\ pc = "evaluate"
    /\ ~HasNextBatch(BatchesDone("validate"), TestBatches)
    /\ \E l \in LossValues, a \in TestAccValues :
           cur' = [cur EXCEPT !.test_loss = l, !.test_acc = a]
    /\ Goto("save_metrics")
    /\ UNCHANGED <<model_vars, config, epoch, history, best_test_acc, best_epoch,
                   epochs_without_improvement, checkpoint, saved_epochs, stop_epoch,
                   pass_vars, io_vars>>
    /\ UNCHANGED ext_vars

SchedulerAlways(cfg) == TRUE

\* scheduler is not None
SchedulerConfigured(cfg) == cfg.scheduler = "cosine_annealing"

\* scheduler step, then the four history appends
save_metrics ==
    /\ pc = "save_metrics"
    /\ IF SchedulerConfigured(config)
       THEN /\ scheduler_steps' = scheduler_steps + 1
            /\ phases' = phases \o <<<<"scheduler", 0>>, <<"metrics", 0>>>>
       ELSE /\ scheduler_steps' = scheduler_steps
            /\ phases' = Append(phases, <<"metrics", 0>>)
    /\ history' = [train_loss |-> Append(history.train_loss, cur.train_loss),
                   train_acc  |-> Append(history.train_acc, cur.train_acc),
                   test_loss  |-> Append(history.test_loss, cur.test_loss),
                   test_acc   |-> Append(history.test_acc, cur.test_acc)]
    /\ Goto("save_best")
    /\ UNCHANGED <<model_vars, config, epoch, cur, best_test_acc, best_epoch,
                   epochs_without_improvement, checkpoint, saved_epochs, stop_epoch,
                   optimizer_steps, io_vars>>
    /\ UNCHANGED ext_vars

ImprovedOrTie(acc, best) == acc >= best

\* if test_acc > best_test_acc
Improved(acc, best) == acc > best

PartialFile == [status |-> "partial", epoch |-> 0, test_acc |-> 0]

CheckpointRecordZeroBased(e, acc) ==
    [status |-> "complete", epoch |-> e - 1, test_acc |-> acc]

\* {'epoch': epoch, ..., 'test_acc': test_acc, ...}
CheckpointRecord(e, acc) == [status |-> "complete", epoch |-> e, test_acc |-> acc]

\* variant that returns without having written anything
TorchSaveNothing(old, new) == {[file |-> old, raised |-> FALSE]}

\* torch.save(obj, checkpoint_path) writes straight to the destination: it
\* returns with the new record in place, or raises before the file is opened
\* (old file untouched), or raises after the file was opened for writing
\* (the destination is truncated / partly written).
TorchSave(old, new) ==
    {[file |-> new, raised |-> FALSE],
     [file |-> old, raised |-> TRUE],
     [file |-> PartialFile, raised |-> TRUE]}

\* "Save best model": the checkpoint decision of the epoch
save_best ==
    /\ pc = "save_best"
    /\ phases' = Append(phases, <<"checkpoint", 0>>)
    /\ IF Improved(cur.test_acc, best_test_acc)
       THEN /\ best_test_acc' = cur.test_acc
            /\ best_epoch' = epoch
            /\ epochs_without_improvement' = 0
            /\ \E r \in TorchSave(checkpoint, CheckpointRecord(epoch, cur.test_acc)) :
                 /\ checkpoint' = r.file
                 /\ IF r.raised
                    THEN /\ Raise("CheckpointIOError")
                         /\ saved_epochs' = saved_epochs
                    ELSE /\ Goto("early_stopping")
                         /\ saved_epochs' = saved_epochs \cup {epoch}
       ELSE /\ epochs_without_improvement' = epochs_without_improvement + 1
            /\ Goto("early_stopping")
            /\ UNCHANGED <<best_test_acc, best_epoch, checkpoint, saved_epochs>>
    /\ UNCHANGED <<model_vars, config, epoch, cur, history, stop_epoch,
                   optimizer_steps, scheduler_steps, io_vars>>
    /\ UNCHANGED ext_vars

EarlyStopCondLate(cfg, count) == cfg.early_stopping /\ count > cfg.patience

EarlyStopCondEager(cfg, count) == cfg.early_stopping /\ count + 1 >= cfg.patience

\* config.training.early_stopping and epochs_without_improvement >= patience
EarlyStopCond(cfg, count) == cfg.early_stopping /\ count >= cfg.patience

\* the early-stopping check that ends the iteration, and the loop header
early_stopping ==
    /\ pc = "early_stopping"
    /\ IF EarlyStopCond(config, epochs_without_improvement)
       THEN /\ stop_epoch' = epoch
            /\ epoch' = epoch
            /\ phases' = Append(phases, <<"stop", 0>>)
            /\ Goto("complete")
       ELSE /\ stop_epoch' = stop_epoch
            /\ IF LoopHasNext(epoch, config.epochs)
               THEN /\ epoch' = epoch + 1
                    /\ phases' = <<>>
                    /\ Goto("train_one_epoch")
               ELSE /\ epoch' = epoch
                    /\ phases' = Append(phases, <<"stop", 0>>)
                    /\ Goto("complete")
    /\ UNCHANGED <<model_vars, config, cur, history, best_test_acc, best_epoch,
                   epochs_without_improvement, checkpoint, saved_epochs,
                   optimizer_steps, scheduler_steps, io_vars>>
    /\ UNCHANGED ext_vars

Last(s) == s[Len(s)]

FinalMetricsBudget(best, bestep, e, hist, cfg) ==
    [written |-> TRUE, best_test_acc |-> best, best_epoch |-> bestep,
     total_epochs |-> cfg.epochs,
     final_train_acc |-> Last(hist.train_acc), final_test_acc |-> Last(hist.test_acc)]

\* metrics = {'best_test_acc': ..., 'best_epoch': ..., 'total_epochs': epoch,
\*            'final_train_acc': history['train_acc'][-1], ...}
FinalMetrics(best, bestep, e, hist, cfg) ==
    [written |-> TRUE, best_test_acc |-> best, best_epoch |-> bestep,
     total_epochs |-> e,
     final_train_acc |-> Last(hist.train_acc), final_test_acc |-> Last(hist.test_acc)]

\* "Training complete": the history record, then the metrics record;
\* 'total_epochs': epoch raises NameError when the loop body never ran
save_results ==
    /\ pc = "complete"
    /\ history_file' = [written |-> TRUE, data |-> history]
    /\ IF epoch = 0
       THEN /\ metrics' = metrics
            /\ Raise("NameError")
       ELSE /\ metrics' = FinalMetrics(best_test_acc, best_epoch, epoch, history, config)
            /\ Goto("done")
    /\ UNCHANGED <<model_vars, loop_vars, pass_vars, config, seed_calls, loaders_created>>
    /\ UNCHANGED ext_vars

Init ==
    /\ config \in Configs
    /\ pc = "load_config"
    /\ error = "none"
    /\ total_blocks = EfficientNetBlocks
    /\ requires_grad = FreshParameters(EfficientNetBlocks)
    /\ frozen = FALSE
    /\ call = NoCall
    /\ prev_call = NoCall
    /\ param_groups = <<>>
    /\ LoopInit
    /\ RunInit
    /\ ExtInit

Next ==
    \/ load_config
    \/ set_seed
    \/ create_dataloaders
    \/ create_model
    \/ unfreeze_configured_blocks
    \/ create_optimizer
    \/ train_batch
    \/ train_batch_raises
    \/ train_one_epoch
    \/ eval_batch
    \/ eval_batch_raises
    \/ evaluate
    \/ save_metrics
    \/ save_best
    \/ early_stopping
    \/ save_results

Spec == Init /\ [][Next]_vars

\* the run is one thread: an enabled step is eventually taken
FairSpec == Spec /\ WF_vars(Next)

\* ======================================================================
\* utils.save_checkpoint / utils.load_checkpoint on the file train() leaves
\* ======================================================================

\* dict.get(key, default); a dict is a record here
DictGet(d, key, default) == IF key \in DOMAIN d THEN d[key] ELSE default

\* the metrics dict a caller passes to save_checkpoint, as a set of items
MetricsDict(acc) == {<<"test_acc", acc>>}

\* {'epoch': epoch, 'model_state_dict': ..., 'optimizer_state_dict': ...,
\*  'metrics': metrics}
UtilsCheckpointRecord(e, m) == [status |-> "complete", epoch |-> e, metrics |-> m]

\* save_checkpoint(model, optimizer, epoch, metrics, path) after the run
save_checkpoint ==
    /\ pc = "done"
    /\ checkpoint' = UtilsCheckpointRecord(epoch, MetricsDict(cur.test_acc))
    /\ Goto("saved")
    /\ UNCHANGED <<model_vars, config, epoch, cur, history, best_test_acc, best_epoch,
                   epochs_without_improvement, saved_epochs, stop_epoch,
                   pass_vars, io_vars, epoch_pass_vars, loaded, service_vars>>

\* load_checkpoint(model, optimizer, path): torch.load raises without a
\* readable file; epoch and metrics are read with dict.get
load_checkpoint ==
    /\ pc \in {"done", "saved"}
    /\ IF checkpoint.status # "complete"
       THEN /\ Raise("FileNotFoundError")
            /\ UNCHANGED loaded
       ELSE /\ loaded' = [returned |-> TRUE,
                          epoch |-> DictGet(checkpoint, "epoch", 0),
                          metrics |-> DictGet(checkpoint, "metrics", {})]
            /\ Goto("loaded")
    /\ UNCHANGED <<model_vars, loop_vars, config, pass_vars, io_vars,
                   epoch_pass_vars, service_vars>>

NextRoundTrip ==
    \/ Next
    \/ save_checkpoint
    \/ load_checkpoint

SpecRoundTrip == Init /\ [][NextRoundTrip]_vars

\* ======================================================================
\* backend/app.py: the inference service
\* ======================================================================

\* models/best_model.pth as a handler finds it
ModelFiles == {"missing", "unreadable", "valid"}

\* the uploaded file: empty, over 10MB, not an image, an image, or an image
\* on which predict() raises
Uploads == {"empty", "too_large", "not_image", "image", "failing_image"}

Response(endpoint, status, flag) ==
    [endpoint |-> endpoint, status |-> status, model_loaded |-> flag]

LoadNeverFails(file) == FALSE

\* not model_path.exists(), or load_model raises
LoadFails(file) == file # "valid"

InitService ==
    /\ pc = "startup"
    /\ error = "none"
    /\ model_file \in ModelFiles
    /\ ModelInit(EfficientNetBlocks, FALSE)
    /\ config = [epochs |-> 0, patience |-> 0, early_stopping |-> FALSE,
                 freeze_backbone |-> FALSE, unfreeze_last_blocks |-> 0,
                 discriminative_lr |-> FALSE, scheduler |-> "none",
                 data_dirs_exist |-> TRUE]
    /\ LoopInit
    /\ RunInit
    /\ PassInit
    /\ loaded = NotLoaded
    /\ ServiceInit

\* @app.on_event("startup"): a missing file returns, a failing load is caught
startup_event ==
    /\ pc = "startup"
    /\ model' = IF LoadFails(model_file) THEN model ELSE model + 1
    /\ Goto("serving")
    /\ UNCHANGED <<model_vars, loop_vars, config, pass_vars, io_vars, epoch_pass_vars,
                   loaded, model_file, response, inference_model, requests, pending>>

\* the checkpoint file is put in place, removed or damaged while serving
model_file_changes ==
    /\ pc = "serving"
    /\ \E f \in ModelFiles \ {model_file} : model_file' = f
    /\ Goto("serving")
    /\ UNCHANGED <<model_vars, loop_vars, config, pass_vars, io_vars, epoch_pass_vars,
                   loaded, model, response, inference_model, requests, pending>>

\* GET /health
health_check ==
    /\ pc = "serving"
    /\ response' = Response("/health", StatusOk, model # 0)
    /\ Goto("serving")
    /\ UNCHANGED <<model_vars, loop_vars, config, pass_vars, io_vars, epoch_pass_vars,
                   loaded, model, model_file, inference_model, requests, pending>>

\* POST /predict up to "await file.read()": "if model is None" loads the
\* model, and both HTTPExceptions of that part end the request with a 500
predict_food_load ==
    /\ pc = "serving"
    /\ requests < MaxRequests
    /\ requests' = requests + 1
    /\ IF model = 0 /\ LoadFails(model_file)
       THEN /\ response' = Response("/predict", StatusServerError, FALSE)
            /\ UNCHANGED <<model, pending>>
       ELSE /\ model' = IF model = 0 THEN model + 1 ELSE model
            /\ pending' = pending + 1
            /\ UNCHANGED response
    /\ Goto("serving")
    /\ UNCHANGED <<model_vars, loop_vars, config, pass_vars, io_vars, epoch_pass_vars,
                   loaded, model_file, inference_model>>

\* POST /predict after the read: the checks of the upload, then
\* predict(model, image) with the global model
predict_food_infer ==
    /\ pc = "serving"
    /\ pending > 0
    /\ pending' = pending - 1
    /\ \E upload \in Uploads :
          IF upload \in {"empty", "too_large", "not_image"}
          THEN /\ response' = Response("/predict", StatusBadRequest, FALSE)
               /\ UNCHANGED inference_model
          ELSE /\ inference_model' = model
               /\ response' = Response("/predict",
                                       IF upload = "image" THEN StatusOk
                                       ELSE StatusServerError, FALSE)
    /\ Goto("serving")
    /\ UNCHANGED <<model_vars, loop_vars, config, pass_vars, io_vars, epoch_pass_vars,
                   loaded, model, model_file, requests>>

NextService ==
    \/ startup_event
    \/ model_file_changes
    \/ health_check
    \/ predict_food_load
    \/ predict_food_infer

SpecService == InitService /\ [][NextService]_vars

\* ======================================================================
\* one pass over a loader: the batch loop of train_one_epoch / evaluate
\* ======================================================================

\* loss.item() of a batch, in hundredths
BatchLossValues == {1, 3}

\* a batch as the loop sees it: its loss, labels.size(0), and
\* predicted.eq(labels).sum(), which counts entries of a tensor of that size
BatchOutcomes ==
    {b \in [loss : BatchLossValues, size : 1..MaxBatchSize, hits : 0..MaxBatchSize] :
        b.hits <= b.size}

AddLossWeighted(running, b) == running + b.loss * b.size

\* running_loss += loss.item()
AddLoss(running, b) == running + b.loss

\* true division n / d, kept exact as the pair (n, d)
Ratio(n, d) == <<n, d>>

InitPass ==
    /\ pc \in {"train_pass", "eval_pass"}
    /\ error = "none"
    /\ ModelInit(EfficientNetBlocks, FALSE)
    /\ config = [epochs |-> 1, patience |-> 0, early_stopping |-> FALSE,
                 freeze_backbone |-> FALSE, unfreeze_last_blocks |-> 0,
                 discriminative_lr |-> FALSE, scheduler |-> "none",
                 data_dirs_exist |-> TRUE]
    /\ LoopInit
    /\ RunInit
    /\ ExtInit

\* one iteration of "for ... in pbar": the metrics part
pass_batch ==
    /\ pc \in {"train_pass", "eval_pass"}
    /\ Len(pass_batches) < MaxPassBatches
    /\ \E b \in BatchOutcomes :
          /\ pass_batches' = Append(pass_batches, b)
          /\ running_loss' = AddLoss(running_loss, b)
          /\ total_seen' = total_seen + b.size
          /\ correct' = correct + b.hits
    /\ optimizer_steps' = BatchSteps(pc = "train_pass", optimizer_steps)
    /\ Goto(pc)
    /\ UNCHANGED <<model_vars, loop_vars, config, phases, scheduler_steps, io_vars,
                   pass_result, loaded, service_vars>>

\* the loader is exhausted: epoch_loss = running_loss / len(loader),
\* epoch_acc = 100.0 * correct / total
pass_return ==
    /\ pc \in {"train_pass", "eval_pass"}
    /\ IF Len(pass_batches) = 0
       THEN /\ Raise("ZeroDivisionError")
            /\ UNCHANGED pass_result
       ELSE /\ pass_result' = [returned |-> TRUE,
                               epoch_loss |-> Ratio(running_loss, Len(pass_batches)),
                               epoch_acc |-> Ratio(100 * correct, total_seen)]
            /\ Goto("pass_done")
    /\ UNCHANGED <<model_vars, loop_vars, config, pass_vars, io_vars,
                   pass_batches, running_loss, correct, total_seen, loaded, service_vars>>

NextPass ==
    \/ pass_batch
    \/ pass_return

SpecPass == InitPass /\ [][NextPass]_vars

\* ======================================================================
\* Properties
\* ======================================================================

SetMax(S) == CHOOSE x \in S : \A y \in S : y <= x

SetMin(S) == CHOOSE x \in S : \A y \in S : x <= y

\* validation accuracies recorded so far, and how many epochs were executed
Acc == history.test_acc

Executed == Len(history.test_acc)

\* best accuracy over the epochs before k, starting from 0
BestBefore(k) == SetMax({InitialBestAcc} \cup {Acc[i] : i \in 1..(k - 1)})

StrictlyImproves(k) == Acc[k] > BestBefore(k)

\* number of consecutive non-improving epochs ending at epoch k
Trailing(k) ==
    CHOOSE c \in 0..k :
        /\ \A i \in (k - c + 1)..k : ~StrictlyImproves(i)
        /\ c = k \/ StrictlyImproves(k - c)

\* the checkpoint decision of epoch k has been taken and did not raise
Decided(k) ==
    /\ k \in 1..Executed
    /\ k < epoch \/ pc \in {"early_stopping", "complete", "done"}

\* epochs after which the loop went on, or ended without the break
PassedEpochs ==
    IF stop_epoch # 0 THEN 1..(stop_epoch - 1)
    ELSE IF pc \in {"complete", "done"} THEN 1..Executed
    ELSE 1..(epoch - 1)

LoopEnded == pc \in {"complete", "done"}

\* C1: for every epoch of a run, the best-model checkpoint is written at that
\* epoch if and only if the epoch's validation accuracy is strictly greater
\* than the best accuracy over all earlier epochs (best starts at 0); a write
\* that raised was likewise attempted at a strictly improving epoch only.
C1_CheckpointIffStrictImprovement ==
    /\ \A k \in 1..Executed : Decided(k) => (k \in saved_epochs <=> StrictlyImproves(k))
    /\ saved_epochs \subseteq {k \in 1..Executed : Decided(k)}
    /\ error = "CheckpointIOError" => StrictlyImproves(epoch) /\ epoch \notin saved_epochs

C1_Witness ==
    /\ pc = "done"
    /\ Executed >= 4
    /\ saved_epochs = {1, 3}
    /\ Acc[2] = Acc[1]
    /\ Acc[4] < Acc[3]

\* C2: with early stopping enabled and patience p, the loop stops at the end
\* of the first epoch at which the epochs-without-improvement counter reaches
\* p: never at an epoch where fewer than p consecutive non-improving epochs
\* have passed, and never after continuing past an epoch where p had passed.
C2_StopsExactlyAtPatience ==
    /\ ~config.early_stopping => stop_epoch = 0
    /\ config.early_stopping =>
          /\ \A k \in PassedEpochs : Trailing(k) < config.patience
          /\ stop_epoch # 0 =>
                /\ stop_epoch = Executed
                /\ Trailing(stop_epoch) >= config.patience
                /\ epochs_without_improvement = Trailing(stop_epoch)
                /\ config.patience >= 1 => epochs_without_improvement = config.patience

C2_Witness ==
    /\ config.early_stopping
    /\ config.patience = 3
    /\ pc = "done"
    /\ stop_epoch = 4
    /\ config.epochs = 5
    /\ best_epoch = 1

\* C3: for every n in 0..total_blocks and from any prior freeze state, after
\* unfreeze_last_blocks(n) a parameter is trainable if and only if it belongs
\* to one of the last n backbone blocks or to the classifier head.
C3_ExactlyLastBlocksAndHead ==
    (call.op = "unfreeze_last_blocks" /\ call.n <= total_blocks) =>
        /\ ~call.raised
        /\ DOMAIN requires_grad = Parameters(total_blocks)
        /\ \A p \in Parameters(total_blocks) :
              requires_grad[p] <=>
                  \/ p[1] = "classifier"
                  \/ p[1] = "features" /\ p[2] >= total_blocks - call.n

C3_Witness ==
    /\ call = Called("unfreeze_last_blocks", 2, FALSE)
    /\ prev_call.op = "unfreeze_backbone"
    /\ total_blocks >= 4
    /\ ~requires_grad[<<"features", 0, 1>>]
    /\ requires_grad[<<"features", total_blocks - 2, 1>>]

\* the mask of a model on which unfreeze_last_blocks(n) is the only call
MaskAlone(T, fb, n) ==
    UnfreezeLastBlocksFlags(T, IF fb THEN FreezeBackboneFlags(FreshParameters(T))
                                 ELSE FreshParameters(T), n).rg

\* C4: unfreeze_last_blocks is idempotent and non-cumulative: whatever calls
\* came before (another unfreeze_last_blocks(n1) included, with n1 = n or not),
\* the mask after unfreeze_last_blocks(n) equals the mask that
\* unfreeze_last_blocks(n) alone gives on a new model.
C4_NonCumulative ==
    (call.op = "unfreeze_last_blocks" /\ call.n <= total_blocks) =>
        \A fb \in BOOLEAN : requires_grad = MaskAlone(total_blocks, fb, call.n)

C4_Witness ==
    /\ call.op = "unfreeze_last_blocks"
    /\ prev_call.op = "unfreeze_last_blocks"
    /\ prev_call.n <= total_blocks
    /\ call.n >= 1
    /\ call.n < prev_call.n
    /\ ~requires_grad[<<"features", total_blocks - prev_call.n, 1>>]

\* positions (group, index) at which parameter p occurs in the returned groups
Occurrences(p) ==
    UNION {{<<g, k>> : k \in {i \in 1..Len(param_groups[g].params) :
                                  param_groups[g].params[i] = p}} :
           g \in 1..Len(param_groups)}

GroupsPartitionTrainable ==
    /\ \A p \in Parameters(total_blocks) :
          Cardinality(Occurrences(p)) = IF requires_grad[p] THEN 1 ELSE 0
    /\ \A g \in 1..Len(param_groups) : param_groups[g].params # <<>>

TieLeavesBestUnchanged ==
    (pc = "save_best" /\ pc' # "save_best" /\ Acc[epoch] = BestBefore(epoch)) =>
        /\ UNCHANGED <<best_test_acc, best_epoch, checkpoint, saved_epochs>>
        /\ epochs_without_improvement' = epochs_without_improvement + 1
        /\ pc' = "early_stopping"

\* C6 (scenario): accuracies [80, 80, 80] with patience 2: the only checkpoint
\* write is at epoch 1 and the run stops at epoch 3.
TieScenario ==
    (/\ config.early_stopping
     /\ config.patience = 2
     /\ Executed >= 3
     /\ SubSeq(Acc, 1, 3) = <<80, 80, 80>>) =>
        /\ Executed = 3
        /\ saved_epochs = {1}
        /\ checkpoint = [status |-> "complete", epoch |-> 1, test_acc |-> 80]
        /\ pc \in {"save_best", "early_stopping", "complete", "done"}
        /\ LoopEnded => stop_epoch = 3

\* C6: a tie with the best accuracy is not an improvement (frame and scenario).
C6_TieIsNotImprovement == [][TieLeavesBestUnchanged]_vars /\ []TieScenario

C6_Witness ==
    /\ pc = "done"
    /\ config.early_stopping
    /\ config.patience = 2
    /\ Acc = <<80, 80, 80>>
    /\ stop_epoch = 3
    /\ epochs_without_improvement = 2

\* C7 as stated: unfreeze_last_blocks(n) with n > total_blocks fails with an
\* error, and a run configured with such an n fails before any training batch.
C7_FailFastBeyondTotalBlocks ==
    /\ (call.op = "unfreeze_last_blocks" /\ call.n > total_blocks) => call.raised
    /\ config.unfreeze_last_blocks > total_blocks =>
          pc \in {"load_config", "set_seed", "create_dataloaders", "create_model",
                  "unfreeze_last_blocks", "error"}

\* C8 as stated: when the checkpoint write fails at an improvement epoch, the
\* previously saved best checkpoint is intact (not partial, not lost) and the
\* run is terminated by the failure.
C8_FailedWriteKeepsPreviousCheckpoint ==
    error = "CheckpointIOError" =>
        /\ pc = "error"
        /\ saved_epochs # {} =>
              checkpoint = [status |-> "complete", epoch |-> SetMax(saved_epochs),
                            test_acc |-> Acc[SetMax(saved_epochs)]]

\* an epoch at whose end early stopping signals STOP
StopSignal(k) == config.early_stopping /\ Trailing(k) >= config.patience

EndsAtEarlierOfBudgetAndStop ==
    LoopEnded =>
        LET signals == {k \in 1..Executed : StopSignal(k)} IN
        /\ Executed <= config.epochs
        /\ IF signals = {} THEN Executed = config.epochs /\ stop_epoch = 0
           ELSE Executed = SetMin(signals) /\ stop_epoch = Executed
        /\ ~config.early_stopping => Executed = config.epochs

\* C9: the training loop always terminates, and it ends exactly at the earlier
\* of the epoch budget being exhausted and the first epoch at which early
\* stopping signals STOP; with early stopping disabled it runs exactly
\* config.epochs epochs for any accuracy sequence.
C9_TerminatesAtBudgetOrStop ==
    /\ <>(pc \in {"done", "error"})
    /\ []EndsAtEarlierOfBudgetAndStop

C9_Witness ==
    /\ pc = "done"
    /\ ~config.early_stopping
    /\ config.epochs = MaxEpochs
    /\ Executed = MaxEpochs
    /\ best_epoch = 1

\* C10: accuracies [70, 72, 71, 71, 71] with patience 3 and early stopping on
\* (budget >= 5): best epoch 2, best accuracy 72, checkpoints written at epochs
\* 1 and 2 only, early stopping triggering at the end of epoch 5.
C10_ScenarioStopsAtEpochFive ==
    (/\ config.early_stopping
     /\ config.patience = 3
     /\ Executed >= 5
     /\ SubSeq(Acc, 1, 5) = <<70, 72, 71, 71, 71>>) =>
        /\ Executed = 5
        /\ best_epoch = 2
        /\ best_test_acc = 72
        /\ saved_epochs = {1, 2}
        /\ checkpoint = [status |-> "complete", epoch |-> 2, test_acc |-> 72]
        /\ pc \in {"save_best", "early_stopping", "complete", "done"}
        /\ LoopEnded => stop_epoch = 5

C10_Witness ==
    /\ pc = "done"
    /\ config.early_stopping
    /\ config.patience = 3
    /\ Acc = <<70, 72, 71, 71, 71>>
    /\ stop_epoch = 5

\* ---------------------------------------------------------------------
\* trainable parameters of the blocks with index in lo..hi-1
TrainableInBlocks(lo, hi) ==
    {p \in Parameters(total_blocks) :
        p[1] = "features" /\ p[2] >= lo /\ p[2] < hi /\ requires_grad[p]}

TrainableInHead ==
    {p \in Parameters(total_blocks) : p[1] = "classifier" /\ requires_grad[p]}

GroupsNamed(name) == {g \in 1..Len(param_groups) : param_groups[g].name = name}

\* the group called name holds exactly params at rate lr, and is absent when
\* params is empty
GroupIs(name, lr, params) ==
    IF params = {} THEN GroupsNamed(name) = {}
    ELSE /\ Cardinality(GroupsNamed(name)) = 1
         /\ \A g \in GroupsNamed(name) :
               /\ param_groups[g].lr = lr
               /\ SeqRange(param_groups[g].params) = params

\* C11: get_parameter_groups assigns groups by block index: mid_layers holds
\* exactly the trainable parameters of blocks [0, total_blocks-2) at the
\* mid-layer rate, last_blocks those of blocks [total_blocks-2, total_blocks) at
\* the last-blocks rate, classifier the trainable head parameters at the
\* classifier rate; with 8 blocks after unfreeze_last_blocks(2) the result is
\* exactly last_blocks (blocks 6-7) and classifier, without mid_layers.
C11_GroupsByBlockIndex ==
    call.op = "get_parameter_groups" =>
        /\ GroupIs("mid_layers", "lr_mid_layers", TrainableInBlocks(0, total_blocks - 2))
        /\ GroupIs("last_blocks", "lr_last_blocks",
                   TrainableInBlocks(total_blocks - 2, total_blocks))
        /\ GroupIs("classifier", "lr_classifier", TrainableInHead)
        /\ \A g \in 1..Len(param_groups) :
              param_groups[g].name \in {"mid_layers", "last_blocks", "classifier"}
        /\ (total_blocks = 8 /\ prev_call = Called("unfreeze_last_blocks", 2, FALSE)) =>
              param_groups =
                  <<[params |-> BlockParams(6) \o BlockParams(7),
                     lr |-> "lr_last_blocks", name |-> "last_blocks"],
                    [params |-> ClassifierParams,
                     lr |-> "lr_classifier", name |-> "classifier"]>>

C11_Witness ==
    /\ call.op = "get_parameter_groups"
    /\ total_blocks = 8
    /\ prev_call = Called("unfreeze_last_blocks", 2, FALSE)
    /\ Len(param_groups) = 2
    /\ param_groups[1].name = "last_blocks"

BackboneParameters == {p \in Parameters(total_blocks) : p[1] = "features"}

HeadParameters == {p \in Parameters(total_blocks) : p[1] = "classifier"}

\* the step is a call of method op on the model
CallStep(op) == prev_call' = call /\ call'.op = op

FreezeBackboneEffect ==
    CallStep("freeze_backbone") =>
        /\ \A p \in BackboneParameters : ~requires_grad'[p]
        /\ \A p \in HeadParameters : requires_grad'[p] = requires_grad[p] /\ requires_grad'[p]
        /\ call.op = "freeze_backbone" =>
              /\ requires_grad' = requires_grad
              /\ frozen' = frozen

\* C12: from any freeze state, freeze_backbone() leaves every backbone-block
\* parameter non-trainable and the head parameters' flags unchanged
\* (trainable); applying it twice gives the same state as applying it once.
C12_FreezeBackbone == [][FreezeBackboneEffect]_vars

C12_Witness ==
    /\ call.op = "freeze_backbone"
    /\ prev_call.op = "unfreeze_last_blocks"
    /\ prev_call.n = 2
    /\ total_blocks >= 3
    /\ \A p \in BackboneParameters : ~requires_grad[p]
    /\ \A p \in HeadParameters : requires_grad[p]

UnfreezeBackboneEffect ==
    CallStep("unfreeze_backbone") =>
        /\ \A p \in BackboneParameters : requires_grad'[p]
        /\ \A p \in HeadParameters : requires_grad'[p] = requires_grad[p]

\* C13: from any freeze state (after unfreeze_last_blocks(n) too),
\* unfreeze_backbone() leaves every backbone-block parameter trainable and does
\* not change the head parameters' flags.
C13_UnfreezeBackbone == [][UnfreezeBackboneEffect]_vars

C13_Witness ==
    /\ call.op = "unfreeze_backbone"
    /\ prev_call.op = "unfreeze_last_blocks"
    /\ prev_call.n = 1
    /\ total_blocks >= 3
    /\ \A p \in BackboneParameters : requires_grad[p]

CheckpointMatchesBest ==
    error # "CheckpointIOError" =>
        IF saved_epochs = {}
        THEN checkpoint = NoCheckpoint /\ best_epoch = 0
        ELSE /\ checkpoint.status = "complete"
             /\ checkpoint.epoch = best_epoch
             /\ checkpoint.test_acc = best_test_acc
             /\ best_epoch = SetMax(saved_epochs)

CheckpointChangesOnlyOnImprovement ==
    checkpoint' # checkpoint => pc = "save_best" /\ StrictlyImproves(epoch)

\* C14: there is one best checkpoint at most (one file) and, when it exists,
\* its recorded epoch is best_epoch and its recorded metric best_test_acc, as
\* long as no checkpoint write has raised; only a strictly improving epoch
\* modifies it.
C14_CheckpointIsTheBest ==
    []CheckpointMatchesBest /\ [][CheckpointChangesOnlyOnImprovement]_vars

C14_Witness ==
    /\ pc = "done"
    /\ Executed = 5
    /\ saved_epochs = {1, 3}
    /\ checkpoint.epoch = 3
    /\ best_epoch = 3

\* C15: when the loop has terminated and the results are out, total_epochs is
\* the number of epochs executed, each of the four history series has that many
\* entries, the final train / validation accuracies are those of the last
\* executed epoch, and best accuracy / best epoch are the controller's.
C15_ResultsMatchRun ==
    /\ metrics.written <=> pc = "done"
    /\ pc = "done" =>
          /\ Executed >= 1
          /\ metrics.total_epochs = Executed
          /\ history_file = [written |-> TRUE, data |-> history]
          /\ Len(history.train_loss) = Executed
          /\ Len(history.train_acc) = Executed
          /\ Len(history.test_loss) = Executed
          /\ metrics.final_train_acc = cur.train_acc
          /\ metrics.final_test_acc = cur.test_acc
          /\ metrics.final_test_acc = Acc[Executed]
          /\ metrics.best_test_acc = best_test_acc
          /\ metrics.best_test_acc = BestBefore(Executed + 1)
          /\ metrics.best_epoch = best_epoch

C15_Witness ==
    /\ pc = "done"
    /\ config.epochs = 5
    /\ stop_epoch = 3
    /\ metrics.total_epochs = 3
    /\ metrics.best_epoch = 1
    /\ metrics.final_test_acc < metrics.best_test_acc

\* C16: set_seed is invoked exactly once in a run, before the data loaders and
\* the model are constructed and before any training batch.
C16_SeedOnceBeforeConstruction ==
    /\ seed_calls <= 1
    /\ (loaders_created \/ call.op # "none" \/ epoch >= 1 \/ phases # <<>>
            \/ optimizer_steps > 0 \/ pc \notin {"load_config", "set_seed"}) =>
          seed_calls = 1
    /\ pc \in {"load_config", "set_seed"} =>
          seed_calls = 0 /\ ~loaders_created /\ call.op = "none"

C16_Witness ==
    /\ pc = "train_one_epoch"
    /\ phases = <<<<"train", 1>>>>
    /\ seed_calls = 1
    /\ loaders_created
    /\ call.op # "none"

\* the epoch's log without the scheduler entry
CorePhases == SelectSeq(phases, LAMBDA e : e[1] # "scheduler")

EpochSchedule ==
    [i \in 1..TrainBatches |-> <<"train", i>>]
    \o [i \in 1..TestBatches |-> <<"validate", i>>]
    \o <<<<"metrics", 0>>, <<"checkpoint", 0>>, <<"stop", 0>>>>

IsPrefix(s, t) == Len(s) <= Len(t) /\ s = SubSeq(t, 1, Len(s))

Logged(e) == \E k \in 1..Len(phases) : phases[k] = e

PhasesInOrder ==
    /\ IsPrefix(CorePhases, EpochSchedule)
    /\ epoch >= 1 =>
          /\ Executed = IF Logged(<<"metrics", 0>>) THEN epoch ELSE epoch - 1
          /\ Logged(<<"checkpoint", 0>>) <=>
                (pc \in {"early_stopping", "complete", "done"}
                    \/ error = "CheckpointIOError")
          /\ Logged(<<"stop", 0>>) <=> pc \in {"complete", "done"}
    /\ epoch = 0 => phases = <<>>

NextEpochAfterStopDecision ==
    epoch' # epoch =>
        /\ epoch' = epoch + 1
        /\ phases' = <<>>
        /\ epoch >= 1 =>
              /\ pc = "early_stopping"
              /\ CorePhases = SubSeq(EpochSchedule, 1, Len(EpochSchedule) - 1)

\* C18: within every epoch all training batches (each once) come before the
\* first validation batch, all validation batches (each once) before the
\* metrics are recorded, then the checkpoint decision, then the continue/stop
\* decision; no batch of epoch k+1 is processed before epoch k's stop decision.
C18_PhaseOrder == []PhasesInOrder /\ [][NextEpochAfterStopDecision]_vars

C18_Witness ==
    /\ pc = "early_stopping"
    /\ epoch = 2
    /\ CorePhases = SubSeq(EpochSchedule, 1, Len(EpochSchedule) - 1)
    /\ Executed = 2

SchedulerPosition == {k \in 1..Len(phases) : phases[k] = <<"scheduler", 0>>}

\* C19: a configured scheduler is stepped exactly once per executed epoch, after
\* both passes and never inside a batch loop; without one it is never stepped;
\* at termination the number of steps is the number of epochs executed.
C19_SchedulerOncePerEpoch ==
    IF config.scheduler = "cosine_annealing"
    THEN /\ scheduler_steps = Executed
         /\ Cardinality(SchedulerPosition) = IF Logged(<<"metrics", 0>>) THEN 1 ELSE 0
         /\ SchedulerPosition \subseteq {TrainBatches + TestBatches + 1}
         /\ LoopEnded => scheduler_steps = (IF stop_epoch # 0 THEN stop_epoch ELSE config.epochs)
    ELSE /\ scheduler_steps = 0
         /\ SchedulerPosition = {}

C19_Witness ==
    /\ pc = "done"
    /\ config.scheduler = "cosine_annealing"
    /\ stop_epoch = 3
    /\ config.epochs = 5
    /\ scheduler_steps = 3

ValidationLeavesStateAlone ==
    pc = "evaluate" =>
        UNCHANGED <<optimizer_steps, requires_grad, frozen, best_test_acc, best_epoch,
                    epochs_without_improvement, checkpoint, saved_epochs, history,
                    scheduler_steps>>

StepsAreTrainingBatches ==
    optimizer_steps =
        IF epoch = 0 THEN 0
        ELSE (epoch - 1) * TrainBatches + BatchesDone("train")

\* C20: the validation pass is read-only: over any number of its batches it
\* performs no optimizer step and leaves the model parameters and optimizer
\* state (their version is the count of optimizer steps), the trainable flags
\* and the controller state unchanged.
C20_ValidationReadOnly ==
    [][ValidationLeavesStateAlone]_vars /\ []StepsAreTrainingBatches

C20_Witness ==
    /\ pc = "save_metrics"
    /\ epoch = 2
    /\ BatchesDone("validate") = TestBatches
    /\ optimizer_steps = 2 * TrainBatches
    /\ best_epoch = 1

RECURSIVE SumLoss(_), SumSize(_), SumHits(_)
SumLoss(s) == IF s = <<>> THEN 0 ELSE s[1].loss + SumLoss(Tail(s))

SumSize(s) == IF s = <<>> THEN 0 ELSE s[1].size + SumSize(Tail(s))

SumHits(s) == IF s = <<>> THEN 0 ELSE s[1].hits + SumHits(Tail(s))

\* the pair (n, d) is the quotient a / b
RatioIs(r, a, b) == r[2] > 0 /\ b > 0 /\ r[1] * b = a * r[2]

\* C21: for a pass over a non-empty sequence of batches, epoch_loss is the sum
\* of the per-batch losses divided by the number of batches (not weighted by
\* batch size), epoch_acc is 100 * correct / total with total the sum of the
\* batch sizes and correct the number of matches; correct never exceeds total,
\* so epoch_acc lies in [0, 100].
C21_EpochAggregates ==
    /\ correct <= total_seen
    /\ pass_result.returned =>
          /\ Len(pass_batches) >= 1
          /\ RatioIs(pass_result.epoch_loss, SumLoss(pass_batches), Len(pass_batches))
          /\ RatioIs(pass_result.epoch_acc, 100 * SumHits(pass_batches),
                     SumSize(pass_batches))
          /\ SumHits(pass_batches) <= SumSize(pass_batches)
          /\ 0 <= pass_result.epoch_acc[1]
          /\ pass_result.epoch_acc[1] <= 100 * pass_result.epoch_acc[2]

C21_Witness ==
    /\ pass_result.returned
    /\ Len(pass_batches) = 3
    /\ pass_batches[1].size # pass_batches[2].size
    /\ pass_batches[1].loss # pass_batches[2].loss
    /\ correct > 0
    /\ correct < total_seen

\* an exception is never followed by another step of the run
NoStepAfterError == pc # "error"

BatchErrorEndsRun ==
    error = "BatchError" =>
        /\ pc = "error"
        /\ epoch >= 1
        /\ Executed = epoch - 1
        /\ ~Logged(<<"metrics", 0>>)
        /\ ~Logged(<<"checkpoint", 0>>)
        /\ BatchesDone("train") < TrainBatches \/ BatchesDone("validate") < TestBatches
        /\ ~metrics.written
        /\ best_epoch < epoch
        /\ best_test_acc = BestBefore(epoch)
        /\ IF best_epoch = 0 THEN checkpoint = NoCheckpoint
           ELSE /\ checkpoint.status = "complete"
                /\ checkpoint.epoch = best_epoch
                /\ checkpoint.test_acc = best_test_acc

\* C22: an error raised while a training or validation batch is processed ends
\* the run: the batch is neither retried nor skipped, no later batch or epoch
\* is processed, the epoch adds no history entry and takes no checkpoint
\* decision, and the checkpoint on disk is the one of the best earlier epoch.
C22_BatchErrorIsFatal == []BatchErrorEndsRun /\ [][NoStepAfterError]_vars

C22_Witness ==
    /\ error = "BatchError"
    /\ epoch = 3
    /\ BatchesDone("train") = TrainBatches
    /\ BatchesDone("validate") = 1
    /\ checkpoint.status = "complete"
    /\ checkpoint.epoch = 2

MissingDataEndsRun ==
    /\ error = "FileNotFoundError" =>
          /\ pc = "error"
          /\ ~config.data_dirs_exist
          /\ ~loaders_created
          /\ call = NoCall
          /\ epoch = 0
          /\ phases = <<>>
          /\ optimizer_steps = 0
          /\ checkpoint = NoCheckpoint
          /\ ~history_file.written
          /\ ~metrics.written
    /\ (~config.data_dirs_exist /\ pc \notin {"load_config", "set_seed", "create_dataloaders"})
          => error = "FileNotFoundError"

CreateLoadersOnce == pc' = "create_dataloaders" => pc = "set_seed"

\* C23: with the train or test directory missing, data-loader creation raises
\* and the run ends without a model, a batch, a checkpoint, a history or a
\* metrics record; the creation is not tried again.
C23_MissingDataFailsFast == []MissingDataEndsRun /\ [][NoStepAfterError /\ CreateLoadersOnce]_vars

C23_Witness ==
    /\ error = "FileNotFoundError"
    /\ pc = "error"
    /\ seed_calls = 1
    /\ config.epochs >= 1

\* epochs whose checkpoint decision has been taken
CompletedEpochs == IF Logged(<<"checkpoint", 0>>) THEN epoch ELSE epoch - 1

CounterIsEpochsSinceBest ==
    epoch >= 1 =>
        /\ epochs_without_improvement = CompletedEpochs - best_epoch
        /\ epochs_without_improvement = Trailing(CompletedEpochs)
        /\ epochs_without_improvement >= 0
        /\ best_epoch = 0 => epochs_without_improvement = CompletedEpochs

\* C24: after every completed epoch k the no-improvement counter is
\* k - best_epoch, the number of epochs since the last strict improvement (or
\* since the start when there has been none), and it is never negative.
C24_CounterIsEpochsSinceBest ==
    /\ epochs_without_improvement >= 0
    /\ CounterIsEpochsSinceBest

C24_Witness ==
    /\ pc = "early_stopping"
    /\ epoch = 5
    /\ best_epoch = 2
    /\ epochs_without_improvement = 3
    /\ ~config.early_stopping

MaxSoFar(k) == SetMax({InitialBestAcc} \cup {Acc[i] : i \in 1..k})

BestIsFirstMaximum ==
    epoch >= 1 =>
        LET k == CompletedEpochs IN
        /\ best_test_acc = MaxSoFar(k)
        /\ best_epoch = IF MaxSoFar(k) = 0 THEN 0
                        ELSE SetMin({i \in 1..k : Acc[i] = MaxSoFar(k)})

\* C25: after every completed epoch best_test_acc is the maximum of 0 and the
\* validation accuracies recorded so far, best_epoch is the earliest epoch with
\* that accuracy (0 when no accuracy is above 0), and best_test_acc never
\* decreases.
C25_BestIsRunningMaximum ==
    []BestIsFirstMaximum /\ [][best_test_acc' >= best_test_acc]_vars

C25_Witness ==
    /\ pc = "done"
    /\ Executed = 4
    /\ Acc = <<70, 80, 72, 80>>
    /\ best_epoch = 2
    /\ best_test_acc = 80

\* C26: at the termination of a run that executed at least one epoch a best
\* checkpoint has been written and best_epoch is between 1 and the number of
\* epochs executed, whatever the validation accuracies (all 0 included).
C26_CheckpointAtTermination ==
    (LoopEnded /\ Executed >= 1) =>
        /\ checkpoint.status = "complete"
        /\ best_epoch >= 1
        /\ best_epoch <= Executed

\* C26 (amended): the same for the runs in which some validation accuracy is
\* above 0; when every accuracy is 0 no epoch improves on the initial best of
\* 0, no checkpoint is written and best_epoch stays 0.
C26_CheckpointWhenSomeAccuracyAboveZero ==
    (LoopEnded /\ Executed >= 1) =>
        IF \E i \in 1..Executed : Acc[i] > 0
        THEN /\ checkpoint.status = "complete"
             /\ best_epoch >= 1
             /\ best_epoch <= Executed
             /\ pc = "done" => metrics.best_epoch = best_epoch
        ELSE /\ checkpoint = NoCheckpoint
             /\ best_epoch = 0

C26_Witness ==
    /\ pc = "done"
    /\ Acc = <<0, 0, 70>>
    /\ checkpoint.status = "complete"
    /\ metrics.best_epoch = 3

\* C27: with early stopping enabled and any patience p >= 0, the run is never
\* stopped early at the end of an epoch whose validation accuracy strictly
\* improved on the best so far.
C27_NoStopAtImprovingEpoch ==
    (config.early_stopping /\ stop_epoch # 0) =>
        /\ ~StrictlyImproves(stop_epoch)
        /\ \E k \in 1..stop_epoch : ~StrictlyImproves(k)

\* C27 (amended): the same for every patience p >= 1. With p = 0 the test
\* "counter >= patience" holds right after the counter's reset, and the run
\* stops at the end of epoch 1 whether or not it improved.
C27_NoStopAtImprovingEpochPositivePatience ==
    /\ (config.early_stopping /\ config.patience >= 1 /\ stop_epoch # 0) =>
          /\ ~StrictlyImproves(stop_epoch)
          /\ \E k \in 1..stop_epoch : ~StrictlyImproves(k)
    /\ (config.early_stopping /\ config.patience = 0 /\ stop_epoch # 0) => stop_epoch = 1

C27_Witness ==
    /\ config.early_stopping
    /\ config.patience = 1
    /\ stop_epoch = 3
    /\ Acc = <<70, 80, 80>>
    /\ pc = "done"

\* C28: after any sequence of freeze_backbone, unfreeze_backbone and
\* unfreeze_last_blocks(n) calls, _frozen is true exactly when no
\* backbone-block parameter is trainable.
C28_FrozenFlagMatchesMask ==
    frozen <=> \A p \in BackboneParameters : ~requires_grad[p]

\* the file is the record train() wrote, not one of save_checkpoint
WrittenByTrain == "test_acc" \in DOMAIN checkpoint

\* C29: reading the checkpoint written by the training loop with
\* load_checkpoint returns the epoch that was saved and the validation metric
\* that was saved with it.
C29_CheckpointRoundTrip ==
    (pc = "loaded" /\ WrittenByTrain) =>
        /\ loaded.returned
        /\ loaded.epoch = checkpoint.epoch
        /\ \E item \in loaded.metrics : item[2] = checkpoint.test_acc

\* a /predict request arrives while the model is unset and cannot be loaded
FailedLoadIsServerError ==
    (requests' = requests + 1 /\ model = 0 /\ model_file # "valid") =>
        /\ response' = Response("/predict", StatusServerError, FALSE)
        /\ model' = 0
        /\ pending' = pending
        /\ inference_model' = inference_model

\* the startup handler finds no loadable file
FailedStartupLeavesUnset ==
    (pc = "startup" /\ model_file # "valid") => model' = 0 /\ pc' = "serving"

ModelSetOnce == model # 0 => model' = model

HealthReportsModel ==
    (response' # response /\ response'.endpoint = "/health") =>
        (response'.model_loaded <=> model # 0)

\* C30: in the inference service inference is only ever run with a loaded
\* model: with the model unset and the checkpoint file missing or failing to
\* load, /predict ends with a 500 and the model stays unset; a model that is
\* set is never unset or reloaded; /health reports model_loaded true exactly
\* when it is set.
C30_InferenceOnlyWithLoadedModel ==
    /\ [](inference_model # 0 /\ (pending > 0 => model # 0) /\ model \in {0, 1})
    /\ [][/\ FailedLoadIsServerError
          /\ FailedStartupLeavesUnset
          /\ ModelSetOnce
          /\ HealthReportsModel]_vars

C30_Witness ==
    /\ pc = "serving"
    /\ requests = 3
    /\ model = 1
    /\ model_file = "missing"
    /\ inference_model = 1
    /\ response = Response("/predict", StatusOk, FALSE)

====
